---- MODULE Spec2Model ----
(***************************************************************************)
(* The voxel field (VoxelGrid) and the surface extractor (create_mesh) of  *)
(* src/src/main.rs.                                                        *)
(*                                                                         *)
(* Representation.                                                         *)
(*  - A sample (f32) is <<"num", n>> for the float with integer value n,   *)
(*    or <<"nan", 0>> for NaN.  Ordered comparisons involving NaN are      *)
(*    false, as in IEEE 754.                                               *)
(*  - A vertex coordinate (f32) is stored doubled: the float c is the      *)
(*    integer 2c.  The offsets of create_mesh are -(size / 2.0), so every  *)
(*    coordinate is a multiple of 0.5 and "c - 1.0" is "2c - 2".           *)
(*  - A u32 is a natural number; products are taken modulo 2^32 by         *)
(*    U32Mul, which also reports whether the exact product overflowed.     *)
(*    Overflow panics when the build has overflow checks (debug profile)   *)
(*    and wraps otherwise (release profile).                               *)
(***************************************************************************)
EXTENDS Integers, Sequences, FiniteSets, TLC

VARIABLES
    checks,       \* TRUE: arithmetic overflow panics (debug); FALSE: wraps (release)
    constructed,  \* a VoxelGrid exists
    panicked,     \* the process has panicked
    size,         \* VoxelGrid.size
    data,         \* VoxelGrid.data, data[i + 1] is the Rust data[i]
    fill_log,     \* the generators passed to map so far, in call order
    op,           \* the most recent operation
    args,         \* its arguments
    pre,          \* VoxelGrid.data as it was when that operation was called
    ret,          \* the value returned by read
    calls,        \* the callback invocations it made, <<x, y, z, value>> in call order
    verts,        \* the positions of the Mesh returned by create_mesh
    owner,        \* owner[k]: the loop index i whose iteration pushed verts[k]
    indices       \* the indices of the Mesh returned by create_mesh

vars == <<checks, constructed, panicked, size, data, fill_log, op, args, pre,
          ret, calls, verts, owner, indices>>

----------------------------------------------------------------------------
(* Bounds of the model *)

MaxSize == 2
MaxFills == 2

\* a size whose cube is 2^33: the smallest power of two that overflows u32
WideSize == 2 ^ 11

Sizes == (0 .. MaxSize) \cup {WideSize}

\* coordinates passed to read: in range and out of range for every small size
Coords == 0 .. MaxSize

----------------------------------------------------------------------------
(* f32 samples *)

Num(n) == <<"num", n>>
NaN == <<"nan", 0>>
Zero == Num(0)

IsNaN(f) == f[1] = "nan"

\* a > b on f32
Gt(a, b) == ~IsNaN(a) /\ ~IsNaN(b) /\ a[2] > b[2]

\* a + b on f32
FAdd(a, b) == IF IsNaN(a) \/ IsNaN(b) THEN NaN ELSE Num(a[2] + b[2])

\* thresholds passed to create_mesh
Limits == {Num(n) : n \in -1 .. 2}

\* generators passed to map: closures (x, y, z, val) -> f32
Generators == {"zero", "sum", "acc", "hole"}

Gen(g, x, y, z, val) ==
    CASE g = "zero" -> Zero
      [] g = "sum"  -> Num(x + y + z)
      [] g = "acc"  -> FAdd(val, Num(1))
      [] g = "hole" -> IF x = 0 THEN NaN ELSE Num(y)

----------------------------------------------------------------------------
(* u32 arithmetic *)

Lo16(n) == n % 65536
Hi16(n) == n \div 65536

\* a * b on u32, for a, b < 2^31: val is the product modulo 2^32 and
\* overflow tells whether the exact product is 2^32 or more.
U32Mul(a, b) ==
    LET p0  == (Lo16(a) % 256) * Lo16(b)
        p1  == (Lo16(a) \div 256) * Lo16(b)
        t   == (p1 % 256) * 256 + p0
        lo  == t % 65536
        hll == (p1 \div 256) + (t \div 65536)
        c1  == Hi16(a) * Lo16(b)
        c2  == Lo16(a) * Hi16(b)
        hi  == ((c1 % 65536) + (c2 % 65536) + hll) % 65536
    IN  [val |-> hi * 65536 + lo,
         overflow |-> \/ Hi16(a) * Hi16(b) > 0
                      \/ c1 >= 65536
                      \/ c2 >= 65536
                      \/ c1 + c2 + hll >= 65536]

\* size * size * size, evaluated left to right
Cube(s) ==
    LET sq == U32Mul(s, s)
        cu == U32Mul(sq.val, s)
    IN  [val |-> cu.val, overflow |-> sq.overflow \/ cu.overflow]

----------------------------------------------------------------------------
(* VoxelGrid *)

\* the coordinates map and each derive from the loop index i
CoordX(i, s) == i % s
CoordY(i, s) == (i \div s) % s
CoordZ(i, s) == (i \div U32Mul(s, s).val) % s

\* z * size * size + y * size + x of read
ReadIdx(x, y, z, s) ==
    LET zs  == U32Mul(z, s)
        zss == U32Mul(zs.val, s)
        ys  == U32Mul(y, s)
    IN  [val |-> zss.val + ys.val + x,
         overflow |-> zs.overflow \/ zss.overflow \/ ys.overflow]

Init ==
    /\ checks \in BOOLEAN
    /\ constructed = FALSE
    /\ panicked = FALSE
    /\ size = 0
    /\ data = <<>>
    /\ fill_log = <<>>
    /\ op = "none"
    /\ args = <<>>
    /\ pre = <<>>
    /\ ret = Zero
    /\ calls = <<>>
    /\ verts = <<>>
    /\ owner = <<>>
    /\ indices = <<>>

\* VoxelGrid::new(size)
New ==
    /\ ~constructed /\ ~panicked
    /\ \E s \in Sizes :
        LET vol == Cube(s) IN
        /\ op' = "new"
        /\ args' = <<s>>
        /\ IF checks /\ vol.overflow
           THEN /\ panicked' = TRUE
                /\ UNCHANGED <<constructed, size, data>>
           ELSE /\ constructed' = TRUE
                /\ size' = s
                /\ data' = [i \in 1 .. vol.val |-> Zero]
                /\ UNCHANGED panicked
    /\ pre' = data
    /\ ret' = Zero
    /\ calls' = <<>>
    /\ verts' = <<>>
    /\ owner' = <<>>
    /\ indices' = <<>>
    /\ UNCHANGED <<checks, fill_log>>

\* VoxelGrid::map(func)
Map ==
    /\ constructed /\ ~panicked
    /\ Len(fill_log) < MaxFills
    /\ \E g \in Generators :
        /\ args' = <<g>>
        /\ fill_log' = Append(fill_log, g)
        /\ data' = [i \in 1 .. Len(data) |->
                      Gen(g, CoordX(i - 1, size), CoordY(i - 1, size),
                          CoordZ(i - 1, size), data[i])]
    /\ calls' = [i \in 1 .. Len(data) |->
                   <<CoordX(i - 1, size), CoordY(i - 1, size),
                     CoordZ(i - 1, size), data[i]>>]
    /\ op' = "map"
    /\ pre' = data
    /\ ret' = Zero
    /\ verts' = <<>>
    /\ owner' = <<>>
    /\ indices' = <<>>
    /\ UNCHANGED <<checks, constructed, panicked, size>>

\* VoxelGrid::each(func)
Each ==
    /\ constructed /\ ~panicked
    /\ calls' = [i \in 1 .. Len(data) |->
                   <<CoordX(i - 1, size), CoordY(i - 1, size),
                     CoordZ(i - 1, size), data[i]>>]
    /\ op' = "each"
    /\ args' = <<>>
    /\ pre' = data
    /\ ret' = Zero
    /\ verts' = <<>>
    /\ owner' = <<>>
    /\ indices' = <<>>
    /\ UNCHANGED <<checks, constructed, panicked, size, data, fill_log>>

\* VoxelGrid::read(x, y, z)
Read ==
    /\ constructed /\ ~panicked
    /\ \E x \in Coords, y \in Coords, z \in Coords :
        LET idx == ReadIdx(x, y, z, size) IN
        /\ args' = <<x, y, z>>
        /\ IF (checks /\ idx.overflow) \/ idx.val >= Len(data)
           THEN /\ panicked' = TRUE
                /\ ret' = Zero
           ELSE /\ ret' = data[idx.val + 1]
                /\ UNCHANGED panicked
    /\ op' = "read"
    /\ pre' = data
    /\ calls' = <<>>
    /\ verts' = <<>>
    /\ owner' = <<>>
    /\ indices' = <<>>
    /\ UNCHANGED <<checks, constructed, size, data, fill_log>>

----------------------------------------------------------------------------
(* create_mesh *)

\* the 36 pushes of one loop iteration, for the doubled coordinates x, y, z
CubeVerts(x, y, z) ==
    << \* Front
       <<x - 2, y, z>>,
       <<x - 2, y - 2, z>>,
       <<x, y - 2, z>>,
       <<x - 2, y, z>>,
       <<x, y - 2, z>>,
       <<x, y, z>>,
       \* Back
       <<x, y, z - 2>>,
       <<x, y - 2, z - 2>>,
       <<x - 2, y - 2, z - 2>>,
       <<x, y, z - 2>>,
       <<x - 2, y - 2, z - 2>>,
       <<x - 2, y, z - 2>>,
       \* Top
       <<x - 2, y, z>>,
       <<x, y, z>>,
       <<x, y, z - 2>>,
       <<x - 2, y, z>>,
       <<x, y, z - 2>>,
       <<x - 2, y, z - 2>>,
       \* Bottom
       <<x, y, z - 2>>,
       <<x, y, z>>,
       <<x - 2, y - 2, z>>,
       <<x, y - 2, z - 2>>,
       <<x - 2, y - 2, z>>,
       <<x - 2, y - 2, z - 2>>,
       \* Left
       <<x - 2, y, z - 2>>,
       <<x - 2, y - 2, z - 2>>,
       <<x - 2, y - 2, z>>,
       <<x - 2, y, z - 2>>,
       <<x - 2, y - 2, z>>,
       <<x - 2, y, z>>,
       \* Right
       <<x, y, z>>,
       <<x, y - 2, z - 2>>,
       <<x, y, z - 2>>,
       <<x, y, z>>,
       <<x, y - 2, z>>,
       <<x, y - 2, z - 2>> >>

\* (i % size) as f32 + xo and its y and z counterparts, doubled,
\* with xo = yo = zo = -(size as f32 / 2.0)
AnchorX(i, s) == 2 * (i % s) - s
AnchorY(i, s) == 2 * ((i \div s) % s) - s
AnchorZ(i, s) == 2 * ((i \div U32Mul(s, s).val) % s) - s

\* CellVerts with the first Front triangle pushed in the opposite winding
CellVertsFlipped(i, d, s, limit) ==
    IF Gt(d[i + 1], limit)
    THEN <<>>
    ELSE LET cv == CubeVerts(AnchorX(i, s), AnchorY(i, s), AnchorZ(i, s))
         IN  [k \in 1 .. Len(cv) |->
                IF k = 2 THEN cv[3] ELSE IF k = 3 THEN cv[2] ELSE cv[k]]

\* what iteration i of the loop pushes
CellVerts(i, d, s, limit) ==
    IF Gt(d[i + 1], limit)
    THEN <<>>
    ELSE CubeVerts(AnchorX(i, s), AnchorY(i, s), AnchorZ(i, s))

\* the loop "for i in 0..vol", from iteration i on: the positions pushed
RECURSIVE EmitFrom(_, _, _, _, _)
EmitFrom(i, vol, d, s, limit) ==
    IF i >= vol
    THEN <<>>
    ELSE CellVerts(i, d, s, limit) \o EmitFrom(i + 1, vol, d, s, limit)

\* the same loop: for each position pushed, the iteration that pushed it
RECURSIVE OwnersFrom(_, _, _, _, _)
OwnersFrom(i, vol, d, s, limit) ==
    IF i >= vol
    THEN <<>>
    ELSE [k \in 1 .. Len(CellVerts(i, d, s, limit)) |-> i]
         \o OwnersFrom(i + 1, vol, d, s, limit)

\* MeshIndices with the exclusive range 0..len
MeshIndicesExclusive(len) == [k \in 1 .. len |-> k - 1]

\* (0..=len as u32).collect()
MeshIndices(len) == [k \in 1 .. len + 1 |-> k - 1]

\* create_mesh(vox, limit); Mesh::compute_normals is the engine's and
\* changes neither the positions nor the indices
CreateMesh ==
    /\ constructed /\ ~panicked
    /\ \E limit \in Limits :
        LET vol == Cube(size) IN
        /\ args' = <<limit>>
        /\ IF checks /\ vol.overflow
           THEN /\ panicked' = TRUE
                /\ verts' = <<>>
                /\ owner' = <<>>
                /\ indices' = <<>>
           ELSE /\ verts' = EmitFrom(0, vol.val, data, size, limit)
                /\ owner' = OwnersFrom(0, vol.val, data, size, limit)
                /\ indices' = MeshIndices(Len(verts'))
                /\ UNCHANGED panicked
    /\ op' = "create_mesh"
    /\ pre' = data
    /\ ret' = Zero
    /\ calls' = <<>>
    /\ UNCHANGED <<checks, constructed, size, data, fill_log>>

Next ==
    \/ New
    \/ Map
    \/ Each
    \/ Read
    \/ CreateMesh

Spec == Init /\ [][Next]_vars

----------------------------------------------------------------------------
(* Vocabulary of the properties *)

Meshed == op = "create_mesh" /\ ~panicked

\* a <= b on f32 samples: false when either is NaN
Le(a, b) == ~IsNaN(a) /\ ~IsNaN(b) /\ a[2] <= b[2]

\* n is the mathematical cube of s (no product is formed, so none can wrap)
IsCubeOf(n, s) ==
    IF s = 0
    THEN n = 0
    ELSE /\ n % s = 0
         /\ (n \div s) % s = 0
         /\ (n \div s) \div s = s

\* the cell of the linear index i: i = cz * size * size + cy * size + cx
CellX(i) == i % size
CellY(i) == (i \div size) % size
CellZ(i) == i \div (size * size)

\* the anchor of cell i, doubled: 2 * (c - size / 2)
Anchor(i) == <<2 * CellX(i) - size, 2 * CellY(i) - size, 2 * CellZ(i) - size>>

\* the cells whose sample is <= the threshold of the last create_mesh
Qualifying == {i \in 0 .. Len(data) - 1 : Le(data[i + 1], args[1])}

\* the cells the last create_mesh pushed vertices for
Emitting == {owner[k] : k \in 1 .. Len(owner)}

\* the blocks of 36 consecutive vertices of the mesh
Blocks == 0 .. (Len(verts) \div 36) - 1

\* vertex j (1..6) of face f (0 front, 1 back, 2 top, 3 bottom, 4 left,
\* 5 right) of block b
FaceVert(b, f, j) == verts[36 * b + 6 * f + j]

Sub(u, v) == <<u[1] - v[1], u[2] - v[2], u[3] - v[3]>>
Dot(u, v) == u[1] * v[1] + u[2] * v[2] + u[3] * v[3]
Cross(u, v) == <<u[2] * v[3] - u[3] * v[2],
                 u[3] * v[1] - u[1] * v[3],
                 u[1] * v[2] - u[2] * v[1]>>

\* the normal (v1 - v0) x (v2 - v0) of triangle t (0, 1) of face f of block b
TriNormal(b, f, t) ==
    Cross(Sub(FaceVert(b, f, 3 * t + 2), FaceVert(b, f, 3 * t + 1)),
          Sub(FaceVert(b, f, 3 * t + 3), FaceVert(b, f, 3 * t + 1)))

\* six times the vector from the cube's centre (anchor - 0.5 on every axis)
\* to the centroid of the six vertices emitted for face f of block b
ToCentroid(b, f) ==
    LET a == Anchor(owner[36 * b + 1])
        sum(c) == FaceVert(b, f, 1)[c] + FaceVert(b, f, 2)[c] + FaceVert(b, f, 3)[c]
                  + FaceVert(b, f, 4)[c] + FaceVert(b, f, 5)[c] + FaceVert(b, f, 6)[c]
    IN  <<sum(1) - 6 * (a[1] - 1), sum(2) - 6 * (a[2] - 1), sum(3) - 6 * (a[3] - 1)>>

\* the outward axis of face f: from the cube's centre to the centre of the
\* face of the unit cube that f names
Outward(f) ==
    CASE f = 0 -> <<0, 0, 1>>
      [] f = 1 -> <<0, 0, -1>>
      [] f = 2 -> <<0, 1, 0>>
      [] f = 3 -> <<0, -1, 0>>
      [] f = 4 -> <<-1, 0, 0>>
      [] f = 5 -> <<1, 0, 0>>

\* cell i qualifies and none of its six neighbours qualifies or emits
Isolated(i) ==
    /\ i \in Qualifying
    /\ \A j \in Qualifying \cup Emitting :
          (  (IF CellX(i) > CellX(j) THEN CellX(i) - CellX(j) ELSE CellX(j) - CellX(i))
           + (IF CellY(i) > CellY(j) THEN CellY(i) - CellY(j) ELSE CellY(j) - CellY(i))
           + (IF CellZ(i) > CellZ(j) THEN CellZ(i) - CellZ(j) ELSE CellZ(j) - CellZ(i))) # 1

----------------------------------------------------------------------------
(* The properties *)

\* C1: create_mesh emits vertices for a cell iff the cell's sample is <= the
\* threshold; it emits 36 vertices per qualifying cell, contiguous, in the
\* order of the cells' linear indices.
C1_EmitsIffQualifying ==
    Meshed =>
        /\ Emitting = Qualifying
        /\ Len(verts) = 36 * Cardinality(Qualifying)
        /\ \A k \in 1 .. Len(owner) - 1 : owner[k] <= owner[k + 1]
        /\ \A i \in Qualifying :
              Cardinality({k \in 1 .. Len(owner) : owner[k] = i}) = 36

\* C2: after new and one map with generator g, read(x, y, z) returns
\* g(x, y, z, 0.0) for all x, y, z < size; map calls g once per cell of the
\* size^3 cells, with the cell's coordinates and previous value, and writes
\* the result to the slot read addresses.
C2_FillThenRead ==
    /\ (op = "read" /\ Len(fill_log) = 1
            /\ args[1] < size /\ args[2] < size /\ args[3] < size)
        => /\ ~panicked
           /\ ret = Gen(fill_log[1], args[1], args[2], args[3], Zero)
    /\ (op = "map" /\ Len(fill_log) = 1)
        => /\ IsCubeOf(Len(calls), size)
           /\ \A i \in 1 .. Len(calls) :
                 /\ calls[i] = <<CellX(i - 1), CellY(i - 1), CellZ(i - 1), Zero>>
                 /\ data[i] = Gen(fill_log[1], CellX(i - 1), CellY(i - 1),
                                  CellZ(i - 1), Zero)

\* C3: for every cell create_mesh emits (an isolated qualifying cell among
\* them), each of the two triangles of each of the six faces has a normal
\* (v1 - v0) x (v2 - v0) whose dot product with the vector from the cube's
\* centre to the face's centroid is strictly positive, the centroid taken
\* both as the mean of the face's six emitted vertices and as the centre of
\* the cube face that the group names.
C3_NormalsOutward ==
    Meshed =>
        \A b \in Blocks : \A f \in 0 .. 5 : \A t \in 0 .. 1 :
            /\ Dot(TriNormal(b, f, t), ToCentroid(b, f)) > 0
            /\ Dot(TriNormal(b, f, t), Outward(f)) > 0

\* C3 witness: create_mesh has emitted the cube of an isolated qualifying cell.
C3_Witness ==
    /\ Meshed
    /\ size = 2
    /\ \E i \in Emitting : Isolated(i)

\* C4: the index buffer of create_mesh is 0, 1, ..., N, where N is the
\* number of vertices: N + 1 entries, the last one N.
C4_IndicesInclusive ==
    Meshed =>
        /\ Len(indices) = Len(verts) + 1
        /\ \A k \in 1 .. Len(indices) : indices[k] = k - 1

\* C4 witness: create_mesh has returned a mesh with vertices.
C4_Witness ==
    /\ Meshed
    /\ Len(verts) >= 72
    /\ indices[Len(indices)] = Len(verts)

\* C5: create_mesh emits no vertex for a cell whose sample is NaN.
C5_NaNNeverEmits ==
    Meshed => \A i \in Emitting : ~IsNaN(data[i + 1])

\* C6: read with a coordinate outside [0, size) fails; it returns no sample.
C6_ReadOutOfRangeFails ==
    (op = "read" /\ (args[1] >= size \/ args[2] >= size \/ args[3] >= size))
        => panicked

\* C7: a constructed field has exactly size^3 samples (the mathematical
\* cube), all 0.0 right after new, and the length stays size^3 after map,
\* each and create_mesh.
C7_LengthIsCube ==
    constructed =>
        /\ IsCubeOf(Len(data), size)
        /\ op = "new" => \A i \in 1 .. Len(data) : data[i] = Zero

\* C8: create_mesh on a field of size 0 does not fail and every buffer it
\* returns, the index buffer included, is empty.
C8_DegenerateIsEmpty ==
    (op = "create_mesh" /\ size = 0)
        => /\ ~panicked
           /\ verts = <<>>
           /\ indices = <<>>

\* C9: the 36 vertices of a qualifying cell with anchor A are six groups of
\* six (front, back, top, bottom, left, right); every vertex is a corner of
\* the unit cube [A - 1, A]^3, the six vertices of a group lie in the group's
\* face plane (front z = A.z, back z = A.z - 1, top y = A.y, bottom
\* y = A.y - 1, left x = A.x - 1, right x = A.x) and cover the four corners
\* of that face.
C9_FacesInPlane ==
    Meshed =>
        \A b \in Blocks :
            LET a == Anchor(owner[36 * b + 1]) IN
            \A f \in 0 .. 5 :
                /\ \A j \in 1 .. 6 :
                      /\ \A c \in 1 .. 3 : FaceVert(b, f, j)[c] \in {a[c] - 2, a[c]}
                      /\ CASE f = 0 -> FaceVert(b, f, j)[3] = a[3]
                           [] f = 1 -> FaceVert(b, f, j)[3] = a[3] - 2
                           [] f = 2 -> FaceVert(b, f, j)[2] = a[2]
                           [] f = 3 -> FaceVert(b, f, j)[2] = a[2] - 2
                           [] f = 4 -> FaceVert(b, f, j)[1] = a[1] - 2
                           [] f = 5 -> FaceVert(b, f, j)[1] = a[1]
                /\ Cardinality({FaceVert(b, f, j) : j \in 1 .. 6}) = 4

\* C10: each calls the visitor once per cell, size^3 calls in all, in linear
\* order (x fastest, then y, then z), with in-range coordinates and the value
\* read returns for them; each and create_mesh leave every sample unchanged.
C10_TraverseVisitsAll ==
    /\ (op = "each")
        => /\ IsCubeOf(Len(calls), size)
           /\ \A i \in 1 .. Len(calls) :
                 LET x == calls[i][1]
                     y == calls[i][2]
                     z == calls[i][3]
                 IN  /\ x < size /\ y < size /\ z < size
                     /\ z * size * size + y * size + x = i - 1
                     /\ calls[i][4] = data[z * size * size + y * size + x + 1]
           /\ data = pre
    /\ (op = "create_mesh") => data = pre

====
